---- MODULE Spec2Model ----
(***************************************************************************)
(* Dialogue orchestration of the UDL assessment assistant (src/app.py):    *)
(* the session map, the chat state machine, upload and reset.              *)
(*                                                                         *)
(* Texts are TLA+ strings and the Python string methods used by the code   *)
(* (strip, lower, upper, split, startswith, in) are computed character by  *)
(* character.  Python's None is the marker None below; a dictionary key    *)
(* that is absent is modelled as a key holding None (the code reads the    *)
(* optional keys with .get only).  Response templates are abbreviated to   *)
(* their heading; created_at/last_activity are not modelled.               *)
(***************************************************************************)
EXTENDS Naturals, Sequences, FiniteSets, TLC

\* ------------------------------------------------------------ bounds ----
\* longest transcript at which a new chat request is still accepted
MaxTranscript == 10
\* the same for the specification of the refinement loop keywords
MaxTranscriptWide == 10
\* the same for the evaluation of uploaded assessments
MaxTranscriptAssess == 10
\* the same where requests are rejected
MaxTranscriptRejects == 4
\* the same where files are uploaded between the turns
MaxTranscriptUpload == 10
\* the same where two requests are handled at a time
MaxTranscriptConcurrent == 3
\* the same where a request arrives while the options are generated
MaxTranscriptGenerate == 10
\* the same where two sessions are used at a time
MaxTranscriptIsolation == 4
\* the same where turns, uploads and resets follow each other
MaxTranscriptNodes == 10
\* the same where the user goes through the dialogue to its end
MaxTranscriptLive == 14

\* ------------------------------------------------- Python str methods ----
None == "<None>"

Whitespace == {" ", "\n", "\t"}
Uppers == "ABCDEFGHIJKLMNOPQRSTUVWXYZ"
Lowers == "abcdefghijklmnopqrstuvwxyz"

CharAt(s, i) == SubSeq(s, i, i)

RECURSIVE LStrip(_)
LStrip(s) ==
    IF Len(s) > 0 /\ CharAt(s, 1) \in Whitespace
    THEN LStrip(SubSeq(s, 2, Len(s)))
    ELSE s

RECURSIVE RStrip(_)
RStrip(s) ==
    IF Len(s) > 0 /\ CharAt(s, Len(s)) \in Whitespace
    THEN RStrip(SubSeq(s, 1, Len(s) - 1))
    ELSE s

\* str.strip()
Strip(s) == RStrip(LStrip(s))

IndexIn(c, alphabet) ==
    IF \E i \in 1..Len(alphabet) : CharAt(alphabet, i) = c
    THEN CHOOSE i \in 1..Len(alphabet) : CharAt(alphabet, i) = c
    ELSE 0

RECURSIVE MapChars(_, _, _)
MapChars(s, from, to) ==
    IF Len(s) = 0 THEN ""
    ELSE LET c == CharAt(s, 1)
             i == IndexIn(c, from)
         IN  (IF i = 0 THEN c ELSE CharAt(to, i))
                 \o MapChars(SubSeq(s, 2, Len(s)), from, to)

\* str.lower() and str.upper()
Lower(s) == MapChars(s, Uppers, Lowers)
Upper(s) == MapChars(s, Lowers, Uppers)

\* sub in s
Contains(sub, s) ==
    \E i \in 1..(Len(s) + 1) :
        /\ i + Len(sub) - 1 <= Len(s)
        /\ SubSeq(s, i, i + Len(sub) - 1) = sub

\* s.startswith(p)
StartsWith(s, p) == Len(s) >= Len(p) /\ SubSeq(s, 1, Len(p)) = p

\* position of the first occurrence of the character c in s, 0 if none
FirstIndex(c, s) ==
    IF \E i \in 1..Len(s) : CharAt(s, i) = c
    THEN CHOOSE i \in 1..Len(s) :
            /\ CharAt(s, i) = c
            /\ \A j \in 1..(i - 1) : CharAt(s, j) # c
    ELSE 0

\* s.split('\n')
RECURSIVE SplitLines(_)
SplitLines(s) ==
    LET i == FirstIndex("\n", s)
    IN  IF i = 0 THEN <<s>>
        ELSE <<SubSeq(s, 1, i - 1)>> \o SplitLines(SubSeq(s, i + 1, Len(s)))

\* s.split(':', 1)[1] for a string that contains a colon
AfterColon(s) == SubSeq(s, FirstIndex(":", s) + 1, Len(s))

\* bool(x) of a value that is None or a string
Truthy(x) == x # None /\ x # ""

\* ------------------------------------------------------- the universe ----
Tokens == {"t1", "t2"}
Handlers == {1, 2}
\* a request that carries no session_token
NoToken == ""
\* one dictionary object per token plus one per handler that may still hold
\* a reference to a replaced dictionary
ObjIds == 1..(Cardinality(Tokens) + Cardinality(Handlers))
NoObj == 0
Free == [free |-> TRUE]
NoRecord == [absent |-> TRUE]

\* texts the external backend can answer with
NotConfiguredText == "OpenAI API key not configured. Please add your API key to the .env file."
InfoReplies == { "OBJECTIVES: solve equations\nGRADE: 9\nSUBJECT: Not specified" }
ClassifierReplies == { " aligned\n", "NOT_ALIGNED", "UNCLEAR", "Partially aligned" }
GeneratedTexts == { "## Assessment Options" }
RefinedTexts == { "## Assessment Options (revised)" }
EvaluationTexts == { "1. Strengths" }
PdfTexts == { "quiz from pdf", "" }

VARIABLES
    client,          \* TRUE iff the OpenAI client was configured at start-up
    chat_sessions,   \* token -> dictionary object (NoObj: no such key)
    heap,            \* dictionary object -> session record
    disk,            \* content of chat_sessions.pkl: token -> record
    pc,              \* position of each request handler inside chat()
    frame,           \* the locals of each request handler
    last,            \* the operation that the latest step completed, if any
    merge            \* input and output of a context merge (MergeSpec only)

vars == <<client, chat_sessions, heap, disk, pc, frame, last, merge>>

\* ---------------------------------------------------- session records ----
NewContext ==
    [ learning_objectives |-> None,
      grade_level |-> None,
      subject |-> None,
      assessment_content |-> None,
      assessment_alignment |-> None,
      last_assessments |-> None,
      last_quality_check |-> None,
      evaluation_report |-> None ]

NewSession ==
    [ messages |-> <<>>,
      state |-> "Start",
      branch |-> None,
      context |-> NewContext ]

\* Entry filing every entry as the user's
Entry_AsUser(role, content) == [role |-> "user", content |-> content]

\* a transcript entry (lines 629-633, 1021-1025), without its timestamp
Entry(role, content) == [role |-> role, content |-> content]

\* pickle.dump(chat_sessions): every key with the record it refers to
save_chat_sessions(cs, hp) ==
    [t \in Tokens |-> IF cs[t] = NoObj THEN NoRecord ELSE hp[cs[t]]]

\* dictionary objects that a key of chat_sessions or a running handler
\* refers to; the others are garbage
Referenced(cs, pcs, fr) ==
    {cs[t] : t \in Tokens} \cup {fr[h].session : h \in {g \in Handlers : pcs[g] # "idle"}}

Collect(hp, cs, pcs, fr) ==
    [o \in ObjIds |-> IF o \in Referenced(cs, pcs, fr) THEN hp[o] ELSE Free]

\* FreshObj handing out one dictionary to every token
FreshObj_Shared(hp) == 1

\* id() of a new dictionary (line 168): an object not in use
FreshObj(hp) == CHOOSE o \in ObjIds : hp[o] = Free /\ \A p \in ObjIds : hp[p] = Free => o <= p

\* the locals of chat(): the request (raw message, token as sent), message,
\* session_token, session (a reference), current_state; pre and stored are
\* the session record and the stored record as the turn found them; reads
\* lists the dictionary objects get_session() has read a field of
IdleFrame ==
    [ raw |-> "", request_token |-> NoToken, message |-> "",
      session_token |-> NoToken, session |-> NoObj, current_state |-> "",
      pre |-> NoRecord, stored |-> NoRecord, reads |-> <<>> ]

\* a completed operation: what was asked (op, token, raw), the HTTP status,
\* the records before (pre, stored) and the session record at the return
\* (post), the backend calls made and the response text
Result(op, status, token, raw, pre, stored, post, calls, response) ==
    [ op |-> op, status |-> status, token |-> token, raw |-> raw,
      pre |-> pre, stored |-> stored, post |-> post,
      calls |-> calls, response |-> response ]

NoLast == Result("none", 0, NoToken, "", NoRecord, NoRecord, NoRecord, <<>>, "")

NoMerge == [ctx |-> NewContext, reply |-> "", once |-> NewContext, twice |-> NewContext]

Init ==
    /\ client \in BOOLEAN
    /\ chat_sessions = [t \in Tokens |-> NoObj]
    /\ heap = [o \in ObjIds |-> Free]
    /\ disk = [t \in Tokens |-> NoRecord]
    /\ pc = [h \in Handlers |-> "idle"]
    /\ frame = [h \in Handlers |-> IdleFrame]
    /\ last = NoLast
    /\ merge = NoMerge

\* ------------------------------------------- the external capabilities ----
\* One result of a call: the function, the texts it was given, how the
\* backend answered ("ok", "unavailable": no client, "error": the call
\* raised), the backend's reply (None without one) and the value returned.
Call(fn, args, outcome, raw, ret) ==
    [fn |-> fn, args |-> args, outcome |-> outcome, raw |-> raw, ret |-> ret]

\* a function whose body is: no client -> the configuration text; reply ->
\* the reply; exception -> f"{errorPrefix}{e}"
TextCapability(cl, fn, args, replies, errorPrefix) ==
    IF ~cl
    THEN { Call(fn, args, "unavailable", None, NotConfiguredText) }
    ELSE { Call(fn, args, "ok", r, r) : r \in replies }
            \cup { Call(fn, args, "error", None, errorPrefix \o "Request timed out.") }

PromptSlots(context) ==
    <<context.learning_objectives, context.grade_level, context.subject>>

extract_basic_info(cl, user_message) ==
    TextCapability(cl, "extract_basic_info", <<user_message>>, InfoReplies,
                   "Error extracting information: ")

generate_udl_assessment_options(cl, context) ==
    TextCapability(cl, "generate_udl_assessment_options", PromptSlots(context),
                   GeneratedTexts, "Error generating assessments: ")

evaluate_assessment_udl(cl, assessment_content) ==
    TextCapability(cl, "evaluate_assessment_udl", <<assessment_content>>,
                   EvaluationTexts, "Error evaluating assessment: ")

apply_user_refinements(cl, assessments_markdown, user_suggestions, context) ==
    TextCapability(cl, "apply_user_refinements",
                   <<assessments_markdown, user_suggestions>> \o PromptSlots(context),
                   RefinedTexts, "Error applying refinements: ")

\* the verdict read off the classifier's reply (line 362-363)
AlignmentOfReply(content) ==
    LET result == Upper(Strip(content))
    IN  IF Contains("ALIGNED", result) /\ ~Contains("NOT", result)
        THEN "aligned"
        ELSE "not_aligned"

classify_assessment_udl_alignment(cl, assessment_content) ==
    LET fn == "classify_assessment_udl_alignment"
        args == <<assessment_content>>
    IN  IF ~cl
        THEN { Call(fn, args, "unavailable", None, "NOT_ALIGNED") }
        ELSE { Call(fn, args, "ok", r, AlignmentOfReply(r)) : r \in ClassifierReplies }
                \cup { Call(fn, args, "error", None, "not_aligned") }

\* ------------------------------------------------------ context merge ----
RECURSIVE ParseLines(_, _)
ParseLines(lines, context) ==
    IF lines = <<>> THEN context
    ELSE LET line == Head(lines)
             value == Strip(AfterColon(line))
             next ==
                IF StartsWith(line, "OBJECTIVES:")
                THEN [context EXCEPT !.learning_objectives = value]
                ELSE IF StartsWith(line, "GRADE:")
                THEN (IF value # "Not specified"
                      THEN [context EXCEPT !.grade_level = value]
                      ELSE context)
                ELSE IF StartsWith(line, "SUBJECT:")
                THEN (IF value # "Not specified"
                      THEN [context EXCEPT !.subject = value]
                      ELSE context)
                ELSE context
         IN  ParseLines(Tail(lines), next)

parse_extracted_info(response_text) ==
    ParseLines(SplitLines(response_text),
               [learning_objectives |-> None, grade_level |-> None, subject |-> None])

\* UpdateContext adding newly extracted objectives to the ones already held
UpdateContext_Accumulating(context, extracted_context) ==
    [context EXCEPT !.learning_objectives =
                        IF Truthy(@) /\ Truthy(extracted_context.learning_objectives)
                        THEN @ \o "; " \o extracted_context.learning_objectives
                        ELSE extracted_context.learning_objectives,
                    !.grade_level = extracted_context.grade_level,
                    !.subject = extracted_context.subject]

\* session['context'].update(extracted_context)
UpdateContext(context, extracted_context) ==
    [context EXCEPT !.learning_objectives = extracted_context.learning_objectives,
                    !.grade_level = extracted_context.grade_level,
                    !.subject = extracted_context.subject]

\* ------------------------------------- chat(): the branch of each state ----
\* A branch yields the set of its possible results, one per answer of the
\* backend: the session record as the branch leaves it, response_content,
\* the calls made, and whether the branch ended in the recursive chat().
Out(rec, response_content, calls) ==
    [rec |-> rec, response |-> response_content, calls |-> calls, recurse |-> FALSE]

Affirmative == {"yes", "y", "yeah", "yep", "sure"}
\* FinalizeWords without "done"
FinalizeWords_NoDone == {"finalize", "finish", "no more changes"}
FinalizeWords == {"finalize", "done", "finish", "no more changes"}
RepromptWords == {"", "continue", "next", "ok"}
NoCachePlaceholder == "(no assessments cached)"

OptionsResponse(assessments) ==
    "# UDL Assessment Options & Rubric\n\n" \o assessments
        \o "\n\n---\n\nShare any suggestions. Type \"finalize\" when done."
UpdatedResponse(refined) ==
    "# Updated UDL Assessment Options & Rubric\n\n" \o refined
        \o "\n\n---\n\nProvide more suggestions to iterate, or type \"finalize\" to finish."
InfoResponse(info_response, question) ==
    "# Information Received\n\n" \o info_response \o "\n\n---\n\n" \o question
ReportResponse(heading, evaluation, verdict) ==
    heading \o "\n\n" \o evaluation \o "\n\n---\n\n" \o verdict

\* chat_Start comparing the message as typed, without lower()
chat_Start_AsTyped(rec, message) ==
    IF message = "design"
    THEN { Out([rec EXCEPT !.branch = "design", !.state = "DesignMode"],
               "# Design Mode Selected", <<>>) }
    ELSE IF message = "evaluate"
    THEN { Out([rec EXCEPT !.branch = "evaluate", !.state = "EvaluateMode"],
               "# Evaluation Mode Selected", <<>>) }
    ELSE { Out(rec, "# Welcome to the UDL Assessment Assistant!\n\nType \"design\" or \"evaluate\" to continue!", <<>>) }

\* chat_Start entering the modes without recording the branch
chat_Start_NoBranch(rec, message) ==
    IF Lower(Strip(message)) = "design"
    THEN { Out([rec EXCEPT !.state = "DesignMode"], "# Design Mode Selected", <<>>) }
    ELSE IF Lower(Strip(message)) = "evaluate"
    THEN { Out([rec EXCEPT !.state = "EvaluateMode"], "# Evaluation Mode Selected", <<>>) }
    ELSE { Out(rec, "# Welcome to the UDL Assessment Assistant!\n\nType \"design\" or \"evaluate\" to continue!", <<>>) }

\* lines 640-686
chat_Start(rec, message) ==
    IF Lower(Strip(message)) = "design"
    THEN { Out([rec EXCEPT !.branch = "design", !.state = "DesignMode"],
               "# Design Mode Selected", <<>>) }
    ELSE IF Lower(Strip(message)) = "evaluate"
    THEN { Out([rec EXCEPT !.branch = "evaluate", !.state = "EvaluateMode"],
               "# Evaluation Mode Selected", <<>>) }
    ELSE { Out(rec, "# Welcome to the UDL Assessment Assistant!\n\nType \"design\" or \"evaluate\" to continue!", <<>>) }

\* lines 689-707 and 829-847: extract, parse, merge, advance
InfoTurn(cl, rec, message, nextState, question) ==
    { Out([rec EXCEPT !.context = UpdateContext(@, parse_extracted_info(c.ret)),
                      !.state = nextState],
          InfoResponse(c.ret, question), <<c>>)
      : c \in extract_basic_info(cl, message) }

chat_DesignMode(cl, rec, message) ==
    InfoTurn(cl, rec, message, "DesignInputReceived",
             "Do you have an assessment that you would like to create UDL options for?")

\* lines 720-732, 800-811, 905-915, 939-950: generate the options and cache them
GenerateTurn(cl, rec) ==
    { Out([rec EXCEPT !.state = "QualityCheckPhase",
                      !.context.last_assessments = c.ret,
                      !.context.last_quality_check = None],
          OptionsResponse(c.ret), <<c>>)
      : c \in generate_udl_assessment_options(cl, rec.context) }

\* lines 709-732
chat_DesignInputReceived(cl, rec, message) ==
    IF Lower(Strip(message)) \in Affirmative
    THEN { Out([rec EXCEPT !.state = "DesignAssessmentYes"],
               "# Assessment Upload Needed", <<>>) }
    ELSE GenerateTurn(cl, rec)

\* chat_DesignAssessmentYes going straight to the options when a file was
\* uploaded
chat_DesignAssessmentYes_ByUpload(rec, message) ==
    IF Truthy(rec.context.assessment_content)
    THEN { Out([rec EXCEPT !.state = "QualityCheckPhase"],
               "# Assessment Received", <<>>) }
    ELSE { Out([rec EXCEPT !.context.assessment_content = message,
                           !.state = "DesignAssessmentReceived"],
               "# Assessment Received", <<>>) }

\* chat_DesignAssessmentYes storing the message over an uploaded content
chat_DesignAssessmentYes_Overwrites(rec, message) ==
    { Out([rec EXCEPT !.context.assessment_content = message,
                      !.state = "DesignAssessmentReceived"],
          "# Assessment Received", <<>>) }

\* lines 734-758
chat_DesignAssessmentYes(rec, message) ==
    IF Truthy(rec.context.assessment_content)
    THEN { Out([rec EXCEPT !.state = "DesignAssessmentReceived"],
               "# Assessment Received", <<>>) }
    ELSE { Out([rec EXCEPT !.context.assessment_content = message,
                           !.state = "DesignAssessmentReceived"],
               "# Assessment Received", <<>>) }

\* ClassifyTurn leaving the interim state of lines 762 and 851 behind when
\* the verdict is not aligned
ClassifyTurn_Interim(cl, rec, classified_text) ==
    UNION {
      { Out([rec EXCEPT !.context.assessment_alignment = a.ret,
                        !.state = IF a.ret = "aligned" THEN "EvaluateAligned"
                                                     ELSE "EvaluateAssessmentReceived",
                        !.context.evaluation_report = e.ret],
            ReportResponse("# UDL Assessment Evaluation Report", e.ret, ""),
            <<a, e>>)
        : e \in evaluate_assessment_udl(cl, rec.context.assessment_content) }
      : a \in classify_assessment_udl_alignment(cl, classified_text) }

\* lines 763-798 and 852-887: classify classified_text, store the verdict,
\* then report on the stored assessment_content
ClassifyTurn(cl, rec, classified_text) ==
    UNION {
      { Out([rec EXCEPT !.context.assessment_alignment = a.ret,
                        !.state = IF a.ret = "aligned" THEN "EvaluateAligned"
                                                     ELSE "EvaluateNotAligned",
                        !.context.evaluation_report = e.ret],
            ReportResponse("# UDL Assessment Evaluation Report", e.ret,
                           IF a.ret = "aligned"
                           THEN "## This assignment is aligned with UDL guidelines!"
                           ELSE "## This assignment is not fully aligned with UDL guidelines."),
            <<a, e>>)
        : e \in evaluate_assessment_udl(cl, rec.context.assessment_content) }
      : a \in classify_assessment_udl_alignment(cl, classified_text) }

\* chat_DesignAssessmentReceived classifying the typed choice instead of
\* the stored assessment
chat_DesignAssessmentReceived_ClassifiesChoice(cl, rec, message) ==
    IF Strip(message) = "1"
    THEN ClassifyTurn(cl, rec, message)
    ELSE GenerateTurn(cl, rec)

\* lines 760-811
chat_DesignAssessmentReceived(cl, rec, message) ==
    IF Strip(message) = "1"
    THEN ClassifyTurn(cl, rec, rec.context.assessment_content)
    ELSE GenerateTurn(cl, rec)

\* lines 813-826: the options are shown but not cached
chat_DesignAssessmentNo(cl, rec) ==
    { Out([rec EXCEPT !.state = "QualityCheckPhase"],
          "# UDL Assessment Options & Rubric\n\n" \o c.ret \o "\n\n---\n\n## Quality Check Phase",
          <<c>>)
      : c \in generate_udl_assessment_options(cl, rec.context) }

\* lines 829-847
chat_EvaluateMode(cl, rec, message) ==
    InfoTurn(cl, rec, message, "EvaluateInputReceived",
             "Could you upload the assessment for evaluation?")

\* chat_EvaluateInputReceived classifying the message without storing it
chat_EvaluateInputReceived_NotStored(cl, rec, message) ==
    ClassifyTurn(cl, rec, message)

\* lines 849-887
chat_EvaluateInputReceived(cl, rec, message) ==
    ClassifyTurn(cl, [rec EXCEPT !.context.assessment_content = message], message)

\* chat_EvaluateAligned reporting without ending the session
chat_EvaluateAligned_Stays(cl, rec) ==
    { Out(rec, ReportResponse("# UDL Assessment Evaluation Report", e.ret,
                              "## Evaluation Complete"), <<e>>)
      : e \in evaluate_assessment_udl(cl, rec.context.assessment_content) }

\* lines 889-900
chat_EvaluateAligned(cl, rec) ==
    { Out([rec EXCEPT !.state = "End"],
          ReportResponse("# UDL Assessment Evaluation Report", e.ret,
                         "## Evaluation Complete"), <<e>>)
      : e \in evaluate_assessment_udl(cl, rec.context.assessment_content) }

\* lines 902-927
chat_EvaluateNotAligned(cl, rec, message) ==
    IF Lower(Strip(message)) \in Affirmative
    THEN GenerateTurn(cl, rec)
    ELSE { Out([rec EXCEPT !.state = "ProvideNotAlignedReason"],
               ReportResponse("# Assessment Analysis Report", e.ret,
                              "## Analysis Complete"), <<e>>)
           : e \in evaluate_assessment_udl(cl, rec.context.assessment_content) }

\* chat_ProvideNotAlignedReason forgetting the verdict at the end
chat_ProvideNotAlignedReason_Forgets(rec) ==
    { Out([rec EXCEPT !.state = "End", !.context.assessment_alignment = None],
          "# Session Complete", <<>>) }

\* lines 929-935
chat_ProvideNotAlignedReason(rec) ==
    { Out([rec EXCEPT !.state = "End"], "# Session Complete", <<>>) }

\* lines 938-950
chat_AssessmentCreationMode(cl, rec) == GenerateTurn(cl, rec)

\* RefineTurn regenerating from the placeholder instead of the cached set
RefineTurn_FromPlaceholder(cl, rec, message) ==
    { Out([rec EXCEPT !.context.last_assessments = c.ret],
          UpdatedResponse(c.ret), <<c>>)
      : c \in apply_user_refinements(cl, NoCachePlaceholder, message, rec.context) }

\* lines 965-976 and 986-996: regenerate from the cached set and the message
RefineTurn(cl, rec, message) ==
    LET assessments_md ==
            IF Truthy(rec.context.last_assessments)
            THEN rec.context.last_assessments
            ELSE NoCachePlaceholder
    IN  { Out([rec EXCEPT !.context.last_assessments = c.ret],
              UpdatedResponse(c.ret), <<c>>)
          : c \in apply_user_refinements(cl, assessments_md, message, rec.context) }

\* lines 952-976
chat_QualityCheckPhase(cl, rec, message) ==
    LET lower == Lower(Strip(message))
    IN  IF lower \in FinalizeWords
        THEN { Out([rec EXCEPT !.state = "End"], "# Session Finalized", <<>>) }
        ELSE IF lower \in RepromptWords
        THEN { Out(rec, "# Quality Check - Your Suggestions", <<>>) }
        ELSE RefineTurn(cl, rec, message)

\* lines 978-996
chat_IterationPhase(cl, rec, message) ==
    IF Lower(Strip(message)) \in FinalizeWords
    THEN { Out([rec EXCEPT !.state = "End"], "# Session Finalized", <<>>) }
    ELSE RefineTurn(cl, rec, message)

\* RestartedSession clearing the five slots with update() instead of
\* replacing the dictionary, so that the cached set survives
RestartedSession_KeepsCache(rec) ==
    [rec EXCEPT !.state = "Start", !.branch = None,
                !.context = [NewContext EXCEPT
                                !.last_assessments = rec.context.last_assessments]]

\* RestartedSession starting the transcript afresh as well
RestartedSession_ClearsTranscript(rec) ==
    [rec EXCEPT !.state = "Start", !.branch = None, !.context = NewContext,
                !.messages = <<>>]

\* the record after lines 1002-1010
RestartedSession(rec) ==
    [rec EXCEPT !.state = "Start", !.branch = None, !.context = NewContext]

\* lines 999-1012; a message that is not a mode word falls out of the
\* branch with response_content still ""
chat_End(rec, message) ==
    IF Lower(Strip(message)) \in {"design", "evaluate"}
    THEN { [rec |-> RestartedSession(rec), response |-> "", calls |-> <<>>,
            recurse |-> TRUE] }
    ELSE { Out(rec, "", <<>>) }

\* lines 1013-1018: the else of the chain over current_state
chat_UnknownState(rec) ==
    { Out(rec, "# Ready for New Session\n\nTo start a new session, please type \"design\" or \"evaluate\"", <<>>) }

\* lines 636-1018
Dispatch(cl, rec, current_state, message) ==
    CASE current_state = "Start" -> chat_Start(rec, message)
      [] current_state = "DesignMode" -> chat_DesignMode(cl, rec, message)
      [] current_state = "DesignInputReceived" -> chat_DesignInputReceived(cl, rec, message)
      [] current_state = "DesignAssessmentYes" -> chat_DesignAssessmentYes(rec, message)
      [] current_state = "DesignAssessmentReceived" -> chat_DesignAssessmentReceived(cl, rec, message)
      [] current_state = "DesignAssessmentNo" -> chat_DesignAssessmentNo(cl, rec)
      [] current_state = "EvaluateMode" -> chat_EvaluateMode(cl, rec, message)
      [] current_state = "EvaluateInputReceived" -> chat_EvaluateInputReceived(cl, rec, message)
      [] current_state = "EvaluateAligned" -> chat_EvaluateAligned(cl, rec)
      [] current_state = "EvaluateNotAligned" -> chat_EvaluateNotAligned(cl, rec, message)
      [] current_state = "ProvideNotAlignedReason" -> chat_ProvideNotAlignedReason(rec)
      [] current_state = "AssessmentCreationMode" -> chat_AssessmentCreationMode(cl, rec)
      [] current_state = "QualityCheckPhase" -> chat_QualityCheckPhase(cl, rec, message)
      [] current_state = "IterationPhase" -> chat_IterationPhase(cl, rec, message)
      [] current_state = "End" -> chat_End(rec, message)
      [] OTHER -> chat_UnknownState(rec)

\* --------------------------------------------------------- operations ----
\* lines 621-634 on handler h: look the session up or create it, read
\* current_state, append the user message, save
Enter(h, raw, request_token, tok, first) ==
    LET exists == chat_sessions[tok] # NoObj
        o == IF exists THEN chat_sessions[tok] ELSE FreshObj(heap)
        rec0 == IF exists THEN heap[o] ELSE NewSession
        rec1 == [rec0 EXCEPT !.messages = Append(@, Entry("user", Strip(raw)))]
        cs1 == [chat_sessions EXCEPT ![tok] = o]
        hp1 == [heap EXCEPT ![o] = rec1]
    IN  /\ chat_sessions' = cs1
        /\ pc' = [pc EXCEPT ![h] = "compute"]
        /\ frame' = [frame EXCEPT ![h] =
                [ raw |-> raw, request_token |-> request_token,
                  message |-> Strip(raw), session_token |-> tok,
                  session |-> o, current_state |-> rec0.state,
                  pre |-> IF first THEN rec0 ELSE frame[h].pre,
                  stored |-> IF first THEN disk[tok] ELSE frame[h].stored,
                  reads |-> <<>> ]]
        /\ heap' = Collect(hp1, cs1, pc', frame')
        /\ disk' = save_chat_sessions(cs1, hp1)
        /\ last' = NoLast
        /\ UNCHANGED <<client, merge>>

\* generate_session_token(): a token no session has
NewTokens(toks) == {t \in toks : chat_sessions[t] = NoObj}

\* a request body without the key "message"
Missing == "<missing>"

\* data.get('message', '') of line 615
GetMessage(raw) == IF raw = Missing THEN "" ELSE raw

\* Required accepting every message
Required_Always(message) == TRUE

\* line 618: the message must not be empty
Required(message) == message # ""

\* chat(), lines 613-634: a request {message: raw, session_token: request_token}
ChatBegin(h, raw, request_token, toks, maxLen) ==
    /\ pc[h] = "idle"
    /\ IF ~Required(Strip(GetMessage(raw)))
       THEN /\ last' = Result("chat", 400, request_token, raw, NoRecord, NoRecord,
                              NoRecord, <<>>, "Message is required")
            /\ UNCHANGED <<client, chat_sessions, heap, disk, pc, frame, merge>>
       ELSE \E tok \in (IF request_token = NoToken THEN NewTokens(toks)
                                                   ELSE {request_token}) :
                /\ chat_sessions[tok] # NoObj
                       => Len(heap[chat_sessions[tok]].messages) + 2 <= maxLen
                /\ Enter(h, raw, request_token, tok, TRUE)

\* chat() with a body whose message is not a string: .strip() raises at
\* line 615 and the handler of line 1044 answers 500
ChatMalformed(h, request_token) ==
    /\ pc[h] = "idle"
    /\ last' = Result("chat", 500, request_token, None,
                      IF chat_sessions[request_token] = NoObj THEN NoRecord
                      ELSE heap[chat_sessions[request_token]],
                      disk[request_token], NoRecord, <<>>, "Internal server error")
    /\ UNCHANGED <<client, chat_sessions, heap, disk, pc, frame, merge>>

\* the nested chat() of line 1012 reads the same request again
ChatRecurse(h, toks) ==
    /\ pc[h] = "reenter"
    /\ \E tok \in (IF frame[h].request_token = NoToken THEN NewTokens(toks)
                                                        ELSE {frame[h].request_token}) :
            Enter(h, frame[h].raw, frame[h].request_token, tok, FALSE)

\* chat(), lines 636-1042: the branch of current_state, then the assistant
\* entry, update_session_activity and save
ChatCompute(h) ==
    /\ pc[h] = "compute"
    /\ LET f == frame[h]
           o == f.session
       IN  \E out \in Dispatch(client, heap[o], f.current_state, f.message) :
            IF out.recurse
            THEN /\ heap' = [heap EXCEPT ![o] = out.rec]
                 /\ pc' = [pc EXCEPT ![h] = "reenter"]
                 /\ UNCHANGED <<client, chat_sessions, disk, frame, last, merge>>
            ELSE LET rec2 == [out.rec EXCEPT
                                !.messages = Append(@, Entry("assistant", out.response))]
                     hp2 == [heap EXCEPT ![o] = rec2]
                 IN  /\ pc' = [pc EXCEPT ![h] = "idle"]
                     /\ frame' = [frame EXCEPT ![h] = IdleFrame]
                     /\ heap' = Collect(hp2, chat_sessions, pc', frame')
                     /\ disk' = save_chat_sessions(chat_sessions, hp2)
                     /\ last' = Result("chat", 200, f.session_token, f.raw, f.pre,
                                       f.stored, rec2, out.calls, out.response)
                     /\ UNCHANGED <<client, chat_sessions, merge>>

\* the turn of handler h takes a branch that generates the options: lines
\* 720 (DesignInputReceived, not affirmative), 799 (DesignAssessmentReceived,
\* not "1"), 904 (EvaluateNotAligned, affirmative)
EntersQuality(h) ==
    /\ pc[h] = "compute"
    /\ LET f == frame[h]
       IN  \/ f.current_state = "DesignInputReceived"
                /\ Lower(Strip(f.message)) \notin Affirmative
           \/ f.current_state = "DesignAssessmentReceived"
                /\ Strip(f.message) # "1"
           \/ f.current_state = "EvaluateNotAligned"
                /\ Lower(Strip(f.message)) \in Affirmative

\* lines 722, 801, 905: session['state'] = 'QualityCheckPhase', assigned
\* before the generator is called; the handler then waits for the backend
ChatEnterQuality(h) ==
    /\ EntersQuality(h)
    /\ heap' = [heap EXCEPT ![frame[h].session].state = "QualityCheckPhase"]
    /\ pc' = [pc EXCEPT ![h] = "generate"]
    /\ UNCHANGED <<client, chat_sessions, disk, frame, last, merge>>

\* lines 723-732 (802-811, 906-915), then 1020-1042: the generator returns,
\* its result is cached, the assistant entry appended, the sessions saved
ChatGenerate(h) ==
    /\ pc[h] = "generate"
    /\ LET f == frame[h]
           o == f.session
       IN  \E out \in GenerateTurn(client, heap[o]) :
            LET rec2 == [out.rec EXCEPT
                            !.messages = Append(@, Entry("assistant", out.response))]
                hp2 == [heap EXCEPT ![o] = rec2]
            IN  /\ pc' = [pc EXCEPT ![h] = "idle"]
                /\ frame' = [frame EXCEPT ![h] = IdleFrame]
                /\ heap' = Collect(hp2, chat_sessions, pc', frame')
                /\ disk' = save_chat_sessions(chat_sessions, hp2)
                /\ last' = Result("chat", 200, f.session_token, f.raw, f.pre,
                                  f.stored, rec2, out.calls, out.response)
                /\ UNCHANGED <<client, chat_sessions, merge>>

\* chat() run from line 613 to its return without another request between
\* its steps, for a message that is not blank: the records, responses and
\* calls it can end with
ChatTurn(cl, rec, raw) ==
    LET message == Strip(raw)
        asked(r) == [r EXCEPT !.messages = Append(@, Entry("user", message))]
        answered(out) ==
            [ rec |-> [out.rec EXCEPT
                        !.messages = Append(@, Entry("assistant", out.response))],
              response |-> out.response, calls |-> out.calls ]
    IN  UNION { IF out.recurse
                THEN { answered(nested) :
                        nested \in Dispatch(cl, asked(out.rec), out.rec.state, message) }
                ELSE { answered(out) }
              : out \in Dispatch(cl, asked(rec), rec.state, message) }

\* a request without a file part
NoFile == None

\* str.endswith
EndsWith(s, p) == Len(s) >= Len(p) /\ SubSeq(s, Len(s) - Len(p) + 1, Len(s)) = p

\* Uploaded announcing the file in the transcript as well
Uploaded_Announced(rec, pdf_text) ==
    [rec EXCEPT !.context.assessment_content = pdf_text,
                !.messages = Append(@, Entry("user", "uploaded a file"))]

\* line 598: the extracted text becomes the assessment content
Uploaded(rec, pdf_text) == [rec EXCEPT !.context.assessment_content = pdf_text]

\* upload_file(), lines 576-608: filename is the uploaded file's name,
\* pdf_text what extract_text_from_pdf returns for it
upload_file(request_token, filename, pdf_text) ==
    IF request_token = NoToken \/ filename = NoFile \/ filename = ""
          \/ ~EndsWith(Lower(filename), ".pdf")
    THEN /\ last' = Result("upload", 400, request_token, filename, NoRecord, NoRecord,
                           NoRecord, <<>>, "rejected")
         /\ UNCHANGED <<client, chat_sessions, heap, disk, pc, frame, merge>>
    ELSE LET tok == request_token
             exists == chat_sessions[tok] # NoObj
             o == IF exists THEN chat_sessions[tok] ELSE FreshObj(heap)
             rec0 == IF exists THEN heap[o] ELSE NewSession
             rec1 == Uploaded(rec0, pdf_text)
             cs1 == [chat_sessions EXCEPT ![tok] = o]
             hp1 == [heap EXCEPT ![o] = rec1]
         IN  /\ chat_sessions' = cs1
             /\ heap' = hp1
             /\ disk' = save_chat_sessions(cs1, hp1)
             /\ last' = Result("upload", 200, tok, filename,
                               IF exists THEN rec0 ELSE NoRecord, disk[tok], rec1,
                               <<>>, pdf_text)
             /\ UNCHANGED <<client, pc, frame, merge>>

\* ResetRecord that keeps the branch of a design session
ResetRecord_KeepsBranch == [NewSession EXCEPT !.branch = "design"]

\* the dictionary that line 1076 builds
ResetRecord == NewSession

\* reset_session(), lines 1070-1096
reset_session(session_token) ==
    IF chat_sessions[session_token] = NoObj
    THEN /\ last' = Result("reset", 404, session_token, "", NoRecord, NoRecord,
                           NoRecord, <<>>, "Session not found")
         /\ UNCHANGED <<client, chat_sessions, heap, disk, pc, frame, merge>>
    ELSE LET old == chat_sessions[session_token]
             held == old \in {frame[h].session : h \in {g \in Handlers : pc[g] # "idle"}}
             o == IF held THEN FreshObj(heap) ELSE old
             cs1 == [chat_sessions EXCEPT ![session_token] = o]
             hp1 == [heap EXCEPT ![o] = ResetRecord]
         IN  /\ chat_sessions' = cs1
             /\ heap' = hp1
             /\ disk' = save_chat_sessions(cs1, hp1)
             /\ last' = Result("reset", 200, session_token, "", heap[old],
                               disk[session_token], ResetRecord, <<>>,
                               "Session reset successfully")
             /\ UNCHANGED <<client, pc, frame, merge>>

\* get_session(), lines 1050-1053: 404 for an unknown token, else the local
\* session refers to the token's dictionary
GetLookup(h, session_token) ==
    /\ pc[h] = "idle"
    /\ IF chat_sessions[session_token] = NoObj
       THEN /\ last' = Result("get", 404, session_token, "", NoRecord, NoRecord,
                              NoRecord, <<>>, "Session not found")
            /\ UNCHANGED <<client, chat_sessions, heap, disk, pc, frame, merge>>
       ELSE /\ pc' = [pc EXCEPT ![h] = "read"]
            /\ frame' = [frame EXCEPT ![h] =
                    [IdleFrame EXCEPT !.request_token = session_token,
                                      !.session_token = session_token,
                                      !.session = chat_sessions[session_token]]]
            /\ last' = NoLast
            /\ UNCHANGED <<client, chat_sessions, heap, disk, merge>>

\* SessionOf looking the token up again at every field
SessionOf_Lookup(h) == chat_sessions[frame[h].session_token]

\* the dictionary a field of the response is read from: the local session
\* of line 1053
SessionOf(h) == frame[h].session

\* line 1056: session['messages']
GetReadMessages(h) ==
    /\ pc[h] = "read"
    /\ pc' = [pc EXCEPT ![h] = "respond"]
    /\ frame' = [frame EXCEPT ![h].pre = heap[SessionOf(h)],
                              ![h].reads = <<SessionOf(h)>>]
    /\ last' = NoLast
    /\ UNCHANGED <<client, chat_sessions, heap, disk, merge>>

\* lines 1057-1059: session['created_at'], session['last_activity'], and
\* the response; post holds the messages returned and the dictionaries the
\* fields were read from
GetRespond(h) ==
    /\ pc[h] = "respond"
    /\ LET f == frame[h]
           reads == f.reads \o <<SessionOf(h), SessionOf(h)>>
       IN  /\ pc' = [pc EXCEPT ![h] = "idle"]
           /\ frame' = [frame EXCEPT ![h] = IdleFrame]
           /\ heap' = Collect(heap, chat_sessions, pc', frame')
           /\ last' = Result("get", 200, f.session_token, "", f.pre,
                             disk[f.session_token],
                             [messages |-> f.pre.messages, reads |-> reads],
                             <<>>, "")
    /\ UNCHANGED <<client, chat_sessions, disk, merge>>

\* ----------------------------------------------------- specifications ----
AllIdle == \A h \in Handlers : pc[h] = "idle"

\* what the user types: the mode words, an affirmative answer, the choice
\* "1", a finalize word
Menu == { "design", " Evaluate ", "Yes", "1", "finalize" }

\* requests are handled one after the other, on one token
Next ==
    \/ \E raw \in Menu, rt \in {"t1", NoToken} :
            ChatBegin(1, raw, rt, {"t1"}, MaxTranscript)
    \/ ChatCompute(1)
    \/ ChatRecurse(1, {"t1"})
    \/ AllIdle /\ reset_session("t1")

Spec == Init /\ [][Next]_vars

\* the keywords of the refinement loop, in several spellings
KeywordMenu ==
    { "design", "finalize", "Done", "finish", "continue", " OK " }

NextKeywords ==
    \/ \E raw \in KeywordMenu :
            ChatBegin(1, raw, "t1", {"t1"}, MaxTranscriptWide)
    \/ ChatCompute(1)
    \/ ChatRecurse(1, {"t1"})
    \/ ChatMalformed(1, "t1")

SpecKeywords == Init /\ [][NextKeywords]_vars

\* what the user types where files are uploaded too: the mode words, an
\* affirmative answer of the interface and one of the documentation
UploadMenu == { "design", " Evaluate ", "Yes", "i do" }

\* the files sent to /api/upload: name and extracted text
UploadFiles == { <<"quiz.PDF", "quiz from pdf">>, <<"notes.txt", "quiz from pdf">> }

\* turns, uploads and resets, handled one after the other, on one token
NextUpload ==
    \/ \E raw \in UploadMenu :
            ChatBegin(1, raw, "t1", {"t1"}, MaxTranscriptUpload)
    \/ ChatCompute(1)
    \/ ChatRecurse(1, {"t1"})
    \/ AllIdle /\ \E file \in UploadFiles : upload_file("t1", file[1], file[2])
    \/ AllIdle /\ reset_session("t1")

SpecUpload == Init /\ [][NextUpload]_vars

\* messages that must be rejected, and one that starts a session
RejectsMenu == { "design", "", "  ", Missing }

\* requests that are rejected, among requests that are not, on two tokens
NextRejects ==
    \/ \E raw \in RejectsMenu, rt \in {"t1", NoToken} :
            ChatBegin(1, raw, rt, Tokens, MaxTranscriptRejects)
    \/ ChatCompute(1)
    \/ ChatMalformed(1, "t1")
    \/ \E t \in Tokens : AllIdle /\ reset_session(t)
    \/ \E t \in Tokens : GetLookup(1, t)
    \/ GetReadMessages(1)
    \/ GetRespond(1)

SpecRejects == Init /\ [][NextRejects]_vars

\* what the user types to have an assessment evaluated
AssessMenu == { " Evaluate ", "yes", "no" }

\* files with a text layer and without (a scan): extract_text_from_pdf
\* returns "" for the latter
AssessFiles == { <<"quiz.pdf", "quiz from pdf">>, <<"scan.pdf", "">> }

\* evaluation sessions with uploads between the turns, handled one after
\* the other, on one token
NextAssess ==
    \/ \E raw \in AssessMenu :
            ChatBegin(1, raw, "t1", {"t1"}, MaxTranscriptAssess)
    \/ ChatCompute(1)
    \/ ChatRecurse(1, {"t1"})
    \/ AllIdle /\ \E file \in AssessFiles : upload_file("t1", file[1], file[2])

SpecAssess == Init /\ [][NextAssess]_vars

\* what two clients of one session type
ConcurrentMenu == { "design", "1" }

\* the server handles requests on threads (app.run, line 1114): two
\* handlers run chat() and get_session() on one token step by step, and a
\* reset may come between any two steps
NextConcurrent ==
    \/ \E h \in Handlers, raw \in ConcurrentMenu :
            ChatBegin(h, raw, "t1", {"t1"}, MaxTranscriptConcurrent)
    \/ \E h \in Handlers : ChatCompute(h)
    \/ reset_session("t1")
    \/ GetLookup(2, "t1")
    \/ GetReadMessages(2)
    \/ GetRespond(2)

SpecConcurrent == Init /\ [][NextConcurrent]_vars

\* what the user of one session types while the options are generated
GenerateMenu == { "design", "1", "Yes" }

\* one client sends its turns one after the other; a second request on the
\* same token arrives while a turn of the first waits for the generator
\* (threads of app.run, line 1114)
NextGenerate ==
    \/ \E raw \in GenerateMenu :
            pc[2] = "idle" /\ ChatBegin(1, raw, "t1", {"t1"}, MaxTranscriptGenerate)
    \/ ~EntersQuality(1) /\ ChatCompute(1)
    \/ ChatEnterQuality(1)
    \/ ChatGenerate(1)
    \/ \E raw \in GenerateMenu :
            pc[1] = "generate" /\ ChatBegin(2, raw, "t1", {"t1"}, MaxTranscriptGenerate)
    \/ ChatCompute(2)

SpecGenerate == Init /\ [][NextGenerate]_vars

\* what the users of two sessions type
IsolationMenu == { "design", "1" }

\* the token each handler's client sends
TokenOf(h) == IF h = 1 THEN "t1" ELSE "t2"

\* two clients, each with a session of its own: their chat turns run step
\* by step on two threads (app.run, line 1114), and the first client
\* uploads a file or resets its session between any two steps
NextIsolation ==
    \/ \E h \in Handlers, raw \in IsolationMenu :
            ChatBegin(h, raw, TokenOf(h), {TokenOf(h)}, MaxTranscriptIsolation)
    \/ \E h \in Handlers : ChatCompute(h)
    \/ upload_file("t1", "quiz.pdf", "quiz from pdf")
    \/ reset_session("t1")

SpecIsolation == Init /\ [][NextIsolation]_vars

\* the session of token t holds the text of the file already
Holds(t, pdf_text) ==
    chat_sessions[t] # NoObj
        /\ heap[chat_sessions[t]].context.assessment_content = pdf_text

\* requests are handled one after the other on one token: chat turns,
\* uploads of a file the session does not hold yet, and resets
NextNodes ==
    \/ \E raw \in Menu : ChatBegin(1, raw, "t1", {"t1"}, MaxTranscriptNodes)
    \/ ChatCompute(1)
    \/ ChatRecurse(1, {"t1"})
    \/ AllIdle /\ ~Holds("t1", "quiz from pdf")
               /\ upload_file("t1", "quiz.pdf", "quiz from pdf")
    \/ AllIdle /\ chat_sessions["t1"] # NoObj /\ reset_session("t1")

SpecNodes == Init /\ [][NextNodes]_vars

\* what a user types who wants to get through the dialogue: a mode word at
\* the start, "finalize" when asked for suggestions, an answer elsewhere,
\* and nothing more once the session has ended
Typed(t) ==
    LET st == IF chat_sessions[t] = NoObj THEN "Start" ELSE heap[chat_sessions[t]].state
    IN  CASE st = "Start" -> { "design", " Evaluate " }
          [] st = "QualityCheckPhase" -> { "finalize" }
          [] st = "End" -> {}
          [] OTHER -> { "Yes", "1" }

\* the turns of such a user, handled one after the other; an ended session
\* is reset
NextLive ==
    \/ \E raw \in Typed("t1") : ChatBegin(1, raw, "t1", {"t1"}, MaxTranscriptLive)
    \/ ChatCompute(1)
    \/ /\ AllIdle
       /\ chat_sessions["t1"] # NoObj
       /\ heap[chat_sessions["t1"]].state = "End"
       /\ reset_session("t1")

\* the step in which such a user's next message is taken up by handler h:
\* the session of token t has not ended and its transcript has room
Asked(h, t) ==
    /\ pc[h] = "idle"
    /\ Typed(t) # {}
    /\ chat_sessions[t] # NoObj
            => Len(heap[chat_sessions[t]].messages) + 2 <= MaxTranscriptLive
    /\ pc' = [pc EXCEPT ![h] = "compute"]

\* the step in which handler h returns the response (line 1028)
Answered(h) ==
    /\ pc[h] = "compute"
    /\ pc' = [pc EXCEPT ![h] = "idle"]

\* the user keeps typing until the session has ended, and the server
\* answers every request
SpecLive == Init /\ [][NextLive]_vars /\ WF_pc(Asked(1, "t1")) /\ WF_pc(Answered(1))

\* the context merge on its own: any context, any reply of the backend
MergeSlotValues == { None, "7", "Math" }
MergeContexts ==
    { [NewContext EXCEPT !.learning_objectives = lo, !.grade_level = g, !.subject = su]
      : lo \in MergeSlotValues, g \in MergeSlotValues, su \in MergeSlotValues }
MergeReplies ==
    InfoReplies \cup
    { "OBJECTIVES: Not specified\nGRADE: Not specified\nSUBJECT: Not specified",
      "OBJECTIVES: name plant parts\nGRADE: 8\nSUBJECT: Biology",
      "GRADE: 8",
      NotConfiguredText,
      "Error extracting information: Request timed out." }

MergeInit ==
    /\ client \in BOOLEAN
    /\ chat_sessions = [t \in Tokens |-> NoObj]
    /\ heap = [o \in ObjIds |-> Free]
    /\ disk = [t \in Tokens |-> NoRecord]
    /\ pc = [h \in Handlers |-> "idle"]
    /\ frame = [h \in Handlers |-> IdleFrame]
    /\ last = NoLast
    /\ merge \in { [ctx |-> c, reply |-> "", once |-> c, twice |-> c] : c \in MergeContexts }

\* lines 692-693: the reply is parsed and merged into the context that the
\* previous merge left; twice is the same merge applied once more
MergeStep(reply) ==
    LET extracted_context == parse_extracted_info(reply)
        once == UpdateContext(merge.once, extracted_context)
    IN  /\ merge' = [ ctx |-> merge.once, reply |-> reply, once |-> once,
                      twice |-> UpdateContext(once, extracted_context) ]
        /\ UNCHANGED <<client, chat_sessions, heap, disk, pc, frame, last>>

MergeNext == \E reply \in MergeReplies : MergeStep(reply)

MergeSpec == MergeInit /\ [][MergeNext]_vars

\* ------------------------------------------------------------- claims ----
\* the record a token refers to
Cur(t) == heap[chat_sessions[t]]

\* the latest step completed a chat turn that was accepted
TurnDone == last.op = "chat" /\ last.status = 200
\* ... and the turn found the session in state st
TurnFrom(st) == TurnDone /\ last.pre.state = st

\* the message of the latest turn, trimmed and in lower case
Word == Lower(Strip(last.raw))

\* C1: a turn in Start with "design" (trimmed, any case) ends in DesignMode
\* with branch design, with "evaluate" in EvaluateMode with branch evaluate,
\* and with any other message leaves state Start, branch none and the
\* context as they were.
C1_StartTurn ==
    TurnFrom("Start") =>
        LET rec == Cur(last.token)
        IN  /\ Word = "design"
                => rec.state = "DesignMode" /\ rec.branch = "design"
            /\ Word = "evaluate"
                => rec.state = "EvaluateMode" /\ rec.branch = "evaluate"
            /\ Word \notin {"design", "evaluate"}
                => /\ rec.state = "Start"
                   /\ rec.branch = None
                   /\ rec.context = last.pre.context

C1_Witness ==
    /\ TurnFrom("Start")
    /\ last.raw = " Evaluate "
    /\ Cur(last.token).state = "EvaluateMode"
    /\ Cur(last.token).branch = "evaluate"

\* C2: a turn in End with "design" or "evaluate" clears every context slot,
\* the cached set included, keeps the session under its token, and ends
\* where a Start turn with that message ends: DesignMode with branch
\* design, EvaluateMode with branch evaluate.
C2_EndRestart ==
    (TurnFrom("End") /\ Word \in {"design", "evaluate"}) =>
        LET rec == Cur(last.token)
        IN  /\ chat_sessions[last.token] # NoObj
            /\ \A slot \in DOMAIN rec.context : rec.context[slot] = None
            /\ Word = "design"
                => rec.state = "DesignMode" /\ rec.branch = "design"
            /\ Word = "evaluate"
                => rec.state = "EvaluateMode" /\ rec.branch = "evaluate"
            /\ \E out \in chat_Start(NewSession, Strip(last.raw)) :
                    /\ out.rec.state = rec.state
                    /\ out.rec.branch = rec.branch
                    /\ out.rec.context = rec.context
                    /\ out.response = last.response

C2_Witness ==
    /\ TurnFrom("End")
    /\ last.raw = "design"
    /\ Truthy(last.pre.context.last_assessments)
    /\ Truthy(last.pre.context.learning_objectives)
    /\ Cur(last.token).state = "DesignMode"
    /\ Cur(last.token).context.last_assessments = None

AllLoopKeywords ==
    {"finalize", "done", "finish", "no more changes", "", "continue", "next", "ok"}

\* the latest step completed a refinement turn: a turn in
\* QualityCheckPhase whose message is none of the loop's keywords
RefinementTurn ==
    TurnFrom("QualityCheckPhase") /\ Word \notin AllLoopKeywords

\* C3: a refinement turn calls apply_user_refinements exactly once, with
\* the cached set and the message, replaces the cached set by what the call
\* returns and stays in QualityCheckPhase, however many refinement turns
\* came before.
C3_RefinementTurn ==
    RefinementTurn =>
        LET rec == Cur(last.token)
        IN  /\ Len(last.calls) = 1
            /\ last.calls[1].fn = "apply_user_refinements"
            /\ last.calls[1].args[1] = last.pre.context.last_assessments
            /\ last.calls[1].args[2] = Strip(last.raw)
            /\ rec.context.last_assessments = last.calls[1].ret
            /\ rec.state = "QualityCheckPhase"

\* a refinement turn whose cached set came from an earlier refinement
C3_Witness ==
    /\ RefinementTurn
    /\ last.pre.context.last_assessments \in RefinedTexts
    /\ last.pre.messages[Len(last.pre.messages)].content
            = UpdatedResponse(last.pre.context.last_assessments)
    /\ Cur(last.token).state = "QualityCheckPhase"

\* C4: in QualityCheckPhase "finalize", "done" and "finish" end in End,
\* "continue" and "ok" stay in QualityCheckPhase; none of them calls the
\* generator or changes the cached set.
C4_LoopKeywords ==
    TurnFrom("QualityCheckPhase") =>
        LET rec == Cur(last.token)
            word == Lower(Strip(last.raw))
        IN  /\ word \in {"finalize", "done", "finish"} => rec.state = "End"
            /\ word \in {"continue", "ok"} => rec.state = "QualityCheckPhase"
            /\ word \in {"finalize", "done", "finish", "continue", "ok"}
                => /\ last.calls = <<>>
                   /\ rec.context.last_assessments = last.pre.context.last_assessments

C4_Witness ==
    /\ TurnFrom("QualityCheckPhase")
    /\ last.raw = "Done"
    /\ Cur(last.token).state = "End"
    /\ Cur(last.token).context.last_assessments \in GeneratedTexts

\* the classifier calls of the latest turn
ClassifierCalls ==
    { i \in 1..Len(last.calls) : last.calls[i].fn = "classify_assessment_udl_alignment" }
ExplicitVerdict(c, verdict) == c.outcome = "ok" /\ Upper(Strip(c.raw)) = verdict

\* C5: when the classifier fails, is unavailable or answers with neither
\* verdict, assessment_alignment becomes not_aligned and the turn ends in
\* EvaluateNotAligned; a turn ends in EvaluateAligned only on an explicit
\* ALIGNED.
C5_AlignmentDefault ==
    TurnDone =>
        \A i \in ClassifierCalls :
            LET c == last.calls[i]
                rec == Cur(last.token)
            IN  /\ ~(ExplicitVerdict(c, "ALIGNED") \/ ExplicitVerdict(c, "NOT_ALIGNED"))
                    => /\ rec.context.assessment_alignment = "not_aligned"
                       /\ rec.state = "EvaluateNotAligned"
                /\ rec.state = "EvaluateAligned" => ExplicitVerdict(c, "ALIGNED")

\* the slot classification and content generation calls of the latest turn
\* that did not succeed
FailedCalls ==
    { i \in 1..Len(last.calls) :
        /\ last.calls[i].fn \in {"extract_basic_info", "generate_udl_assessment_options",
                                 "apply_user_refinements"}
        /\ last.calls[i].outcome # "ok" }

\* C6: a turn whose slot classification or generation call failed reports
\* an error and leaves state and context as they were before the turn.
C6_FailureLeavesRecord ==
    (last.op = "chat" /\ FailedCalls # {}) =>
        /\ last.status # 200
        /\ Cur(last.token).state = last.pre.state
        /\ Cur(last.token).context = last.pre.context

\* the reply carries a value for the slot: a line with the prefix whose
\* text is not the sentinel
Specified(reply, prefix) ==
    \E i \in 1..Len(SplitLines(reply)) :
        /\ StartsWith(SplitLines(reply)[i], prefix)
        /\ Strip(AfterColon(SplitLines(reply)[i])) # "Not specified"

MergeDone == merge.reply # ""

\* C7: a merge leaves every slot for which the reply carries the sentinel,
\* or nothing, as it was.
C7_MergeKeepsFilled ==
    MergeDone =>
        /\ ~Specified(merge.reply, "OBJECTIVES:")
            => merge.once.learning_objectives = merge.ctx.learning_objectives
        /\ ~Specified(merge.reply, "GRADE:")
            => merge.once.grade_level = merge.ctx.grade_level
        /\ ~Specified(merge.reply, "SUBJECT:")
            => merge.once.subject = merge.ctx.subject

\* C8: merging a reply a second time changes nothing.
C8_MergeIdempotent == MergeDone => merge.twice = merge.once

C8_Witness ==
    /\ MergeDone
    /\ merge.once # merge.ctx
    /\ merge.ctx.learning_objectives # None
    /\ merge.twice = merge.once

\* C9: reset of an existing session, whatever its state, succeeds and
\* leaves under the same token a record in Start, without branch, with every
\* context slot empty.
C9_ResetTotal ==
    last.op = "reset" =>
        /\ last.status = 200 <=> last.pre # NoRecord
        /\ last.status = 200 =>
            /\ chat_sessions[last.token] # NoObj
            /\ Cur(last.token).state = "Start"
            /\ Cur(last.token).branch = None
            /\ \A slot \in DOMAIN Cur(last.token).context :
                    Cur(last.token).context[slot] = None

C9_Witness ==
    /\ last.op = "reset"
    /\ last.pre # NoRecord
    /\ last.pre.state = "QualityCheckPhase"
    /\ last.pre.branch = "design"
    /\ Truthy(last.pre.context.last_assessments)
    /\ Cur(last.token).state = "Start"

\* C10: until the transition of a turn has been computed the stored record
\* is the one the turn found, and a turn that ends in an internal failure
\* leaves the stored record as it found it.
C10_NoWriteBeforeTransition ==
    /\ \A h \in Handlers :
            pc[h] = "compute" => disk[frame[h].session_token] = frame[h].stored
    /\ (last.op = "chat" /\ last.status = 500) => disk[last.token] = last.stored

\* C11: a turn that did not start in End extends the transcript it found
\* by its own message followed by its own response, with nothing between
\* them, also when another turn for the token runs at the same time.
C11_TurnsNotInterleaved ==
    (TurnDone /\ last.pre.state # "End") =>
        last.post.messages
            = last.pre.messages \o << Entry("user", Strip(last.raw)),
                                      Entry("assistant", last.response) >>

\* the latest step completed the later of two turns that both began before
\* either computed: the transcript the first one found is followed by the
\* two messages and then the two responses, and no reset came between
OverlappedPair ==
    /\ TurnDone
    /\ Cur(last.token) = last.post
    /\ Len(last.post.messages) = Len(last.pre.messages) + 4
    /\ SubSeq(last.post.messages, 1, Len(last.pre.messages)) = last.pre.messages
    /\ LET n == Len(last.pre.messages)
       IN  /\ last.post.messages[n + 1] = Entry("user", Strip(last.raw))
           /\ last.post.messages[n + 2].role = "user"
           /\ last.post.messages[n + 3].role = "assistant"
           /\ last.post.messages[n + 4].role = "assistant"

\* the records two turns with messages first, second end with when the
\* second starts after the first has returned
OneAfterTheOther(rec, first, second) ==
    UNION { { o2.rec : o2 \in ChatTurn(client, o1.rec, second) }
            : o1 \in ChatTurn(client, rec, first) }

\* C12: two turns for a token that overlap leave the state, branch and
\* context that the two turns leave when run one after the other, in one of
\* the two orders.
C12_TurnsSerialized ==
    OverlappedPair =>
        LET other == last.post.messages[Len(last.pre.messages) + 2].content
        IN  \E r \in OneAfterTheOther(last.pre, last.raw, other)
                        \cup OneAfterTheOther(last.pre, other, last.raw) :
                /\ r.state = last.post.state
                /\ r.branch = last.post.branch
                /\ r.context = last.post.context

\* C20: a read that overlaps a reset (and a turn in flight) takes every
\* field of its response from one dictionary, the one the reset replaced or
\* the one it installed.
C20_ReadSeesOneRecord ==
    (last.op = "get" /\ last.status = 200) =>
        \A i, j \in DOMAIN last.post.reads : last.post.reads[i] = last.post.reads[j]

\* a read that began before a reset and answered after it, while a turn
\* that began before the reset is still in flight
C20_Witness ==
    /\ last.op = "get"
    /\ last.status = 200
    /\ last.post.reads[1] # chat_sessions[last.token]
    /\ pc[1] = "compute"
    /\ frame[1].session = last.post.reads[1]
    /\ last.post.messages # <<>>

DesignNodes ==
    { "DesignMode", "DesignInputReceived", "DesignAssessmentYes",
      "DesignAssessmentReceived", "EvaluateAligned", "EvaluateNotAligned",
      "ProvideNotAlignedReason", "QualityCheckPhase", "End" }
EvaluateNodes ==
    { "EvaluateMode", "EvaluateInputReceived", "EvaluateAligned", "EvaluateNotAligned",
      "ProvideNotAlignedReason", "QualityCheckPhase", "End" }

ValidNode(rec) ==
    /\ rec.branch = None <=> rec.state = "Start"
    /\ rec.branch \in {None, "design", "evaluate"}
    /\ rec.branch = "design" => rec.state \in DesignNodes
    /\ rec.branch = "evaluate" => rec.state \in EvaluateNodes

IsPrefix(s, t) == Len(s) <= Len(t) /\ SubSeq(t, 1, Len(s)) = s

\* C17: a chat turn or an upload leaves a transcript that starts with the
\* transcript it found, the turn that restarts a session from End included.
C17_AppendOnly ==
    (last.op \in {"chat", "upload"} /\ last.status = 200 /\ last.pre # NoRecord)
        => IsPrefix(last.pre.messages, Cur(last.token).messages)

\* the restart from End of a session that had a file uploaded
C17_Witness ==
    /\ TurnFrom("End")
    /\ Word = "design"
    /\ last.pre.context.assessment_content = "quiz from pdf"
    /\ Len(last.pre.messages) >= 8
    /\ Len(Cur(last.token).messages) = Len(last.pre.messages) + 3
    /\ IsPrefix(last.pre.messages, Cur(last.token).messages)

DocumentedAffirmative == {"yes", "y", "yeah", "yep", "sure", "i do", "i have it"}

\* C19: in DesignInputReceived and EvaluateNotAligned a message takes the
\* affirmative edge (to DesignAssessmentYes, respectively to the generated
\* options in QualityCheckPhase) exactly when, trimmed and in lower case, it
\* is one of yes, y, yeah, yep, sure, i do, i have it.
C19_AffirmativeWords ==
    /\ TurnFrom("DesignInputReceived") =>
            (Word \in DocumentedAffirmative
                <=> Cur(last.token).state = "DesignAssessmentYes")
    /\ TurnFrom("EvaluateNotAligned") =>
            (Word \in DocumentedAffirmative
                <=> Cur(last.token).state = "QualityCheckPhase")

\* the message of a request is missing, empty or blank
BlankMessage(raw) == raw # None /\ Strip(GetMessage(raw)) = ""

\* C15: a chat request without message, or with an empty or blank one, is
\* answered 400, and a reset or a history lookup for a token without
\* session is answered 404; neither creates a session nor changes a record,
\* in memory or stored.
C15_RejectionsChangeNothing ==
    [][ /\ (last'.op = "chat" /\ BlankMessage(last'.raw))
            => /\ last'.status = 400
               /\ UNCHANGED <<chat_sessions, heap, disk>>
        /\ (last'.op \in {"reset", "get"} /\ chat_sessions[last'.token] = NoObj)
            => /\ last'.status = 404
               /\ UNCHANGED <<chat_sessions, heap, disk>>
      ]_vars

\* a reset of a token without session answered 404 while another token has
\* a session
C15_Witness ==
    /\ last.op = "reset"
    /\ last.status = 404
    /\ chat_sessions[last.token] = NoObj
    /\ \E t \in Tokens : chat_sessions[t] # NoObj

\* the assistant entries of a transcript
Outbound(messages) == { i \in DOMAIN messages : messages[i].role = "assistant" }

\* C16: every completed chat turn, whatever the state and the message,
\* leaves exactly one assistant entry more than it found.
C16_OneOutboundPerTurn ==
    TurnDone =>
        Cardinality(Outbound(Cur(last.token).messages))
            = Cardinality(Outbound(last.pre.messages)) + 1

\* the turn that restarts a session from End: two user entries, one
\* assistant entry
C16_Witness ==
    /\ TurnFrom("End")
    /\ Word = "design"
    /\ Len(Cur(last.token).messages) = Len(last.pre.messages) + 3
    /\ Cardinality(Outbound(Cur(last.token).messages))
            = Cardinality(Outbound(last.pre.messages)) + 1

\* C18: a turn in End with a message that is neither "design" nor
\* "evaluate" leaves state End, branch and context as they were, and
\* answers with the restart prompt: a text that is not empty and names
\* "design" and "evaluate".
C18_EndPrompt ==
    (TurnFrom("End") /\ Word \notin {"design", "evaluate"}) =>
        LET rec == Cur(last.token)
        IN  /\ rec.state = "End"
            /\ rec.branch = last.pre.branch
            /\ rec.context = last.pre.context
            /\ last.response # ""
            /\ Contains("design", last.response)
            /\ Contains("evaluate", last.response)

\* sessions in the state of rec whose context, upload and transcript differ
Variants(rec) ==
    { [rec EXCEPT !.context = NewContext, !.messages = <<>>],
      [rec EXCEPT !.context.assessment_content = "quiz from pdf",
                  !.context.learning_objectives = "fractions",
                  !.messages = <<Entry("user", "hello")>> \o @] }

\* two turns got the same results from the capabilities they both called
SameResults(calls1, calls2) ==
    \A i \in DOMAIN calls1, j \in DOMAIN calls2 :
        calls1[i].fn = calls2[j].fn
            => calls1[i].outcome = calls2[j].outcome /\ calls1[i].raw = calls2[j].raw

\* C14: the state a turn ends in depends only on the state it starts in, the
\* message and the capability results: a session in the same state with
\* another context, upload and transcript ends the same turn in the same
\* state.
C14_Replayable ==
    TurnDone =>
        \A other \in Variants(last.pre) :
            /\ \E out \in ChatTurn(client, other, last.raw) :
                    SameResults(out.calls, last.calls)
            /\ \A out \in ChatTurn(client, other, last.raw) :
                    SameResults(out.calls, last.calls)
                        => out.rec.state = Cur(last.token).state

\* the turn whose branch reads the upload: from DesignAssessmentYes without
\* upload, compared with the same turn of a session that has one
C14_Witness ==
    /\ TurnFrom("DesignAssessmentYes")
    /\ last.pre.context.assessment_content = None
    /\ Cur(last.token).context.assessment_content = Strip(last.raw)
    /\ Cur(last.token).state = "DesignAssessmentReceived"
    /\ \E other \in Variants(last.pre) :
            \E out \in ChatTurn(client, other, last.raw) :
                /\ out.rec.context.assessment_content = "quiz from pdf"
                /\ out.rec.state = "DesignAssessmentReceived"

\* the latest step completed an upload that was accepted for a session
\* that existed
UploadDone == last.op = "upload" /\ last.status = 200 /\ last.pre # NoRecord

FilledSlots ==
    { "learning_objectives", "grade_level", "subject", "assessment_content",
      "assessment_alignment", "last_assessments" }

\* C21: a chat turn that is no restart from End, and an upload, leave every
\* slot filled that they found filled.
C21_SlotsStayFilled ==
    ((TurnDone /\ ~(last.pre.state = "End" /\ Word \in {"design", "evaluate"}))
        \/ UploadDone)
        => \A slot \in FilledSlots :
                Truthy(last.pre.context[slot]) => Truthy(Cur(last.token).context[slot])

\* the evaluation calls of the latest turn
ReportCalls ==
    { i \in 1..Len(last.calls) : last.calls[i].fn = "evaluate_assessment_udl" }

\* C22: the verdict stored by a classifying turn is the verdict on the
\* content stored with it; while the session is in EvaluateAligned or
\* EvaluateNotAligned an upload leaves that content as it is; and the report
\* of the following turn is generated from it.
C22_OneSnapshot ==
    /\ TurnDone =>
            \A i \in ClassifierCalls :
                /\ Cur(last.token).context.assessment_content = last.calls[i].args[1]
                /\ Cur(last.token).context.assessment_alignment = last.calls[i].ret
    /\ (UploadDone /\ last.pre.state \in {"EvaluateAligned", "EvaluateNotAligned"})
            => Cur(last.token).context.assessment_content
                    = last.pre.context.assessment_content
    /\ (TurnDone /\ last.pre.state \in {"EvaluateAligned", "EvaluateNotAligned"})
            => \A i \in ReportCalls :
                    last.calls[i].args[1] = last.pre.context.assessment_content

\* C23: an upload for a session sets assessment_content to the extracted
\* text and leaves state, branch, transcript and the other slots as they
\* were, whatever the state.
C23_UploadFrame ==
    UploadDone =>
        LET rec == Cur(last.token)
        IN  /\ rec.context.assessment_content = last.response
            /\ rec.state = last.pre.state
            /\ rec.branch = last.pre.branch
            /\ rec.messages = last.pre.messages
            /\ \A slot \in DOMAIN rec.context \ {"assessment_content"} :
                    rec.context[slot] = last.pre.context[slot]

C23_Witness ==
    /\ UploadDone
    /\ last.pre.state = "EvaluateNotAligned"
    /\ last.pre.context.assessment_content = "no"
    /\ Cur(last.token).context.assessment_content = "quiz from pdf"
    /\ Cur(last.token).context.assessment_alignment = "not_aligned"
    /\ Len(Cur(last.token).messages) = 6

\* C24: when an upload has set assessment_content in EvaluateInputReceived,
\* the next turn classifies that content and leaves it the session's
\* assessment_content.
C24_UploadIsEvaluated ==
    (TurnFrom("EvaluateInputReceived") /\ Truthy(last.pre.context.assessment_content))
        => /\ \A i \in ClassifierCalls :
                    last.calls[i].args[1] = last.pre.context.assessment_content
           /\ Cur(last.token).context.assessment_content
                    = last.pre.context.assessment_content

\* C26: a turn in EvaluateInputReceived stores the message as
\* assessment_content, classifies it once, stores the verdict, and ends in
\* EvaluateAligned when the verdict is aligned, in EvaluateNotAligned when
\* not.
C26_EvaluateInput ==
    TurnFrom("EvaluateInputReceived") =>
        LET rec == Cur(last.token)
        IN  /\ rec.context.assessment_content = Strip(last.raw)
            /\ Cardinality(ClassifierCalls) = 1
            /\ \A i \in ClassifierCalls :
                    /\ last.calls[i].args[1] = rec.context.assessment_content
                    /\ rec.context.assessment_alignment = last.calls[i].ret
                    /\ rec.state = IF last.calls[i].ret = "aligned"
                                   THEN "EvaluateAligned" ELSE "EvaluateNotAligned"

C26_Witness ==
    /\ TurnFrom("EvaluateInputReceived")
    /\ last.raw = "no"
    /\ Cur(last.token).context.assessment_content = "no"
    /\ Cur(last.token).context.assessment_alignment = "aligned"
    /\ Cur(last.token).state = "EvaluateAligned"

\* C27: every turn from EvaluateAligned and from ProvideNotAlignedReason
\* ends in End; from EvaluateNotAligned "yes" ends in QualityCheckPhase and
\* "no" in ProvideNotAlignedReason; none of them changes branch,
\* assessment_content or assessment_alignment.
C27_EvaluationTail ==
    (TurnDone /\ last.pre.state \in {"EvaluateAligned", "EvaluateNotAligned",
                                     "ProvideNotAlignedReason"}) =>
        LET rec == Cur(last.token)
        IN  /\ last.pre.state \in {"EvaluateAligned", "ProvideNotAlignedReason"}
                => rec.state = "End"
            /\ (last.pre.state = "EvaluateNotAligned" /\ Word = "yes")
                => rec.state = "QualityCheckPhase"
            /\ (last.pre.state = "EvaluateNotAligned" /\ Word = "no")
                => rec.state = "ProvideNotAlignedReason"
            /\ rec.branch = last.pre.branch
            /\ rec.context.assessment_content = last.pre.context.assessment_content
            /\ rec.context.assessment_alignment = last.pre.context.assessment_alignment

C27_Witness ==
    /\ TurnFrom("ProvideNotAlignedReason")
    /\ last.pre.context.assessment_alignment \in {"not_aligned", "NOT_ALIGNED"}
    /\ Cur(last.token).state = "End"
    /\ Cur(last.token).branch = "evaluate"
    /\ Cur(last.token).context.assessment_alignment = last.pre.context.assessment_alignment

\* the generator calls of the latest turn
GeneratorCalls ==
    { i \in 1..Len(last.calls) : last.calls[i].fn = "generate_udl_assessment_options" }

\* C25: in DesignAssessmentReceived the message "1" classifies the stored
\* assessment_content, stores the verdict and ends in EvaluateAligned when
\* the verdict is aligned and in EvaluateNotAligned when not, the branch
\* still design; any other message ends in QualityCheckPhase with the
\* newly generated set cached and the verdict slot untouched.
C25_DesignAssessmentReceived ==
    TurnFrom("DesignAssessmentReceived") =>
        LET rec == Cur(last.token)
        IN  IF Strip(last.raw) = "1"
            THEN /\ Cardinality(ClassifierCalls) = 1
                 /\ GeneratorCalls = {}
                 /\ \A i \in ClassifierCalls :
                        /\ last.calls[i].args[1] = last.pre.context.assessment_content
                        /\ rec.context.assessment_alignment = last.calls[i].ret
                        /\ rec.state = IF last.calls[i].ret = "aligned"
                                       THEN "EvaluateAligned" ELSE "EvaluateNotAligned"
                 /\ rec.context.assessment_content = last.pre.context.assessment_content
                 /\ rec.branch = "design"
            ELSE /\ rec.state = "QualityCheckPhase"
                 /\ Cardinality(GeneratorCalls) = 1
                 /\ ClassifierCalls = {}
                 /\ \A i \in GeneratorCalls :
                        rec.context.last_assessments = last.calls[i].ret
                 /\ rec.context.assessment_alignment
                        = last.pre.context.assessment_alignment

C25_Witness ==
    /\ TurnFrom("DesignAssessmentReceived")
    /\ last.raw = "1"
    /\ last.pre.context.assessment_content = "design"
    /\ Cur(last.token).state = "EvaluateNotAligned"
    /\ Cur(last.token).branch = "design"
    /\ Cur(last.token).context.assessment_alignment = "not_aligned"

\* the role a strictly alternating transcript has at position i
AlternatingRole(i) == IF i % 2 = 1 THEN "user" ELSE "assistant"

\* C30: after every completed turn the transcript alternates user,
\* assistant, user, assistant from its first entry on, and the turn has
\* added one user entry carrying its message and one assistant entry, a
\* turn that restarts the session from End included.
C30_TranscriptAlternates ==
    TurnDone =>
        LET messages == Cur(last.token).messages
            before == IF last.pre = NoRecord THEN <<>> ELSE last.pre.messages
        IN  /\ \A i \in DOMAIN messages : messages[i].role = AlternatingRole(i)
            /\ Len(messages) = Len(before) + 2
            /\ messages[Len(messages) - 1] = Entry("user", Strip(last.raw))
            /\ messages[Len(messages)].role = "assistant"

\* C29: on the design path "yes" in DesignInputReceived ends in
\* DesignAssessmentYes without a generator call and with the context as it
\* was; every turn from DesignAssessmentYes ends in DesignAssessmentReceived
\* with assessment_content non-empty, an uploaded content kept and the
\* message stored only when there was none.
C29_DesignYesPath ==
    /\ (TurnFrom("DesignInputReceived") /\ Word = "yes") =>
            /\ Cur(last.token).state = "DesignAssessmentYes"
            /\ last.calls = <<>>
            /\ Cur(last.token).context = last.pre.context
    /\ TurnFrom("DesignAssessmentYes") =>
            LET rec == Cur(last.token)
            IN  /\ rec.state = "DesignAssessmentReceived"
                /\ last.calls = <<>>
                /\ Truthy(rec.context.assessment_content)
                /\ rec.context.assessment_content =
                        IF Truthy(last.pre.context.assessment_content)
                        THEN last.pre.context.assessment_content
                        ELSE Strip(last.raw)
                /\ \A slot \in DOMAIN rec.context \ {"assessment_content"} :
                        rec.context[slot] = last.pre.context[slot]

C29_Witness ==
    /\ TurnFrom("DesignAssessmentYes")
    /\ last.pre.context.assessment_content = "quiz from pdf"
    /\ last.raw = "i do"
    /\ Cur(last.token).state = "DesignAssessmentReceived"
    /\ Cur(last.token).context.assessment_content = "quiz from pdf"

\* the refinement calls of the latest turn
RefinementCalls ==
    { i \in 1..Len(last.calls) : last.calls[i].fn = "apply_user_refinements" }

\* C28: a turn that enters QualityCheckPhase from another state calls the
\* generator once and caches what it returns; a turn that finds the session
\* in QualityCheckPhase finds the cached set filled, and no refinement is
\* made from the "(no assessments cached)" placeholder.
C28_QualityCheckCached ==
    /\ (TurnDone /\ last.pre.state # "QualityCheckPhase"
                 /\ last.post.state = "QualityCheckPhase") =>
            /\ Cardinality(GeneratorCalls) = 1
            /\ \A i \in GeneratorCalls :
                    last.post.context.last_assessments = last.calls[i].ret
    /\ TurnFrom("QualityCheckPhase") =>
            /\ Truthy(last.pre.context.last_assessments)
            /\ \A i \in RefinementCalls :
                    last.calls[i].args[1] # NoCachePlaceholder

\* the record of token t, NoRecord when there is none
RecordOf(t) == IF chat_sessions[t] = NoObj THEN NoRecord ELSE Cur(t)

\* the tokens whose chat turn, upload or reset takes the step
ActingTokens ==
    { frame[h].session_token : h \in { g \in Handlers : pc[g] # "idle" /\ pc'[g] # pc[g] } }
        \cup { frame'[h].session_token : h \in { g \in Handlers : pc[g] = "idle" /\ pc'[g] # pc[g] } }
        \cup { t \in Tokens : last'.op \in {"upload", "reset"} /\ last'.token = t }

\* C31: a step of a chat turn, an upload or a reset for one token leaves the
\* record of every other token (transcript, state, branch, context) as it
\* was, also while a turn on the other token is running.
C31_SessionsIsolated ==
    [][ \A b \in Tokens : RecordOf(b)' # RecordOf(b) => b \in ActingTokens ]_vars

C31_Witness ==
    /\ last.op = "reset" /\ last.status = 200 /\ last.token = "t1"
    /\ last.pre.state = "DesignInputReceived"
    /\ pc[2] = "compute"
    /\ frame[2].session_token = "t2"
    /\ Cur("t2").state = "DesignMode"
    /\ Len(Cur("t2").messages) = 3
    /\ frame[2].pre = [Cur("t2") EXCEPT !.messages = SubSeq(@, 1, 2)]

\* the twelve nodes of the dialogue
TwelveNodes ==
    { "Start", "DesignMode", "DesignInputReceived", "DesignAssessmentYes",
      "DesignAssessmentReceived", "EvaluateMode", "EvaluateInputReceived",
      "EvaluateAligned", "EvaluateNotAligned", "ProvideNotAlignedReason",
      "QualityCheckPhase", "End" }

\* C32: between the requests every session is in one of the twelve nodes,
\* and every chat turn dispatches on one of them: the branches of
\* DesignAssessmentNo, AssessmentCreationMode, IterationPhase and
\* EvaluateAssessmentReceived and the final else are never taken.
C32_TwelveNodes ==
    /\ AllIdle => \A t \in Tokens :
            chat_sessions[t] # NoObj => Cur(t).state \in TwelveNodes
    /\ \A h \in Handlers :
            pc[h] = "compute" => frame[h].current_state \in TwelveNodes

C32_Witness ==
    /\ last.op = "upload" /\ last.status = 200
    /\ AllIdle
    /\ Cur("t1").state = "EvaluateNotAligned"
    /\ Cur("t1").branch = "design"
    /\ Len(Cur("t1").messages) = 10
    /\ Cur("t1").context.assessment_content = "quiz from pdf"

\* the most turns a session in a node still needs to reach End when the
\* user answers "finalize" in QualityCheckPhase
TurnsToEnd(st) ==
    CASE st = "End" -> 0
      [] st \in {"EvaluateAligned", "ProvideNotAlignedReason", "QualityCheckPhase"} -> 1
      [] st = "EvaluateNotAligned" -> 2
      [] st \in {"EvaluateInputReceived", "DesignAssessmentReceived"} -> 3
      [] st \in {"EvaluateMode", "DesignAssessmentYes"} -> 4
      [] st = "DesignInputReceived" -> 5
      [] st = "DesignMode" -> 6
      [] st = "Start" -> 7
      [] OTHER -> 8

LeftStart ==
    chat_sessions["t1"] # NoObj /\ Cur("t1").state \notin {"Start", "End"}

AtEnd == chat_sessions["t1"] # NoObj /\ Cur("t1").state = "End"

\* C33: outside Start, QualityCheckPhase and End every accepted turn moves
\* the session to another state; every turn of a user who leaves Start and
\* answers "finalize" in QualityCheckPhase brings the session nearer to
\* End, so End can be reached from every node; and a session that has left
\* Start eventually reaches End.
C33_Progresses ==
    /\ [](TurnDone =>
            /\ last.pre.state \notin {"Start", "QualityCheckPhase", "End"}
                    => last.post.state # last.pre.state
            /\ TurnsToEnd(last.post.state) < TurnsToEnd(last.pre.state))
    /\ (LeftStart ~> AtEnd)

C33_Witness ==
    /\ TurnFrom("QualityCheckPhase")
    /\ last.raw = "finalize"
    /\ AtEnd
    /\ Cur("t1").branch = "design"
    /\ Cur("t1").context.assessment_alignment = "not_aligned"
    /\ Len(Cur("t1").messages) = 14
====
